---- MODULE Spec2Model ----
(***************************************************************************)
(* Note_backend: the note routes (create, read, unlock, update, delete,    *)
(* list versions, revert) over the Prisma store (notes, note_versions),    *)
(* with the authenticate / checkNoteOwnership middleware and the           *)
(* express-validator chain noteValidation.                                 *)
(*                                                                         *)
(* Strings that the code sanitises (title, description, versionId) are     *)
(* sequences of one-character strings, so that trim() and parseInt() are   *)
(* computed.  A request body is a record whose DOMAIN is the set of fields *)
(* the JSON body carries: a field that is absent is `undefined' in the     *)
(* handler.  Every `await' on the store is one step of a handler; what     *)
(* lies between two awaits is computed within the step.                    *)
(***************************************************************************)
EXTENDS Integers, Sequences, FiniteSets, TLC

VARIABLES
  notes,          \* table notes: a set of rows
  versions,       \* table note_versions: a set of rows
  nextNoteId,     \* autoincrement of notes.id
  nextVersionId,  \* autoincrement of note_versions.id
  now,            \* the store's clock in seconds, stamped on note_versions.created_at
  req,            \* per handler slot: the request in flight and its locals
  resp,           \* the response most recently sent (NoResp while a request that
                  \* is being handled has not been answered)
  event,          \* what io.emit did for that response: the notification sent,
                  \* or the socket error logged
  nUpdates,       \* history: per note id, the updates answered 200
  nReverts,       \* history: per note id, the reverts answered 200
  lastRevert      \* history: the last committed revert, until the note is written again

vars == <<notes, versions, nextNoteId, nextVersionId, now, req, resp, event,
          nUpdates, nReverts, lastRevert>>

store == <<notes, versions, nextNoteId, nextVersionId, now>>
history == <<nUpdates, nReverts, lastRevert>>

---------------------------------------------------------------------------
(* Bounds *)

MaxNotes == 2
MaxVersions == 4
MaxNow == 2

\* isLength({ max: 255 }) of the title chain
MaxTitleLen == 255

Users == {1, 2}
Creators == {1}           \* the users whose create requests the runs include
Anonymous == 0            \* a request that carries no token
Callers == Users \cup {Anonymous}
Procs == {1, 2}           \* handler slots: requests that can be in flight together
NoteIds == 1..MaxNotes

---------------------------------------------------------------------------
(* Values *)

Null == <<"null">>                 \* SQL NULL / JSON null
BcryptHash(p) == <<"bcrypt", p>>   \* bcrypt.hash(p, 12): one-way, tagged by its input
RawString(p) == <<"str", p>>       \* a string stored as it came

NoFields == [f \in {} |-> f]       \* the JSON body {}
Has(b, f) == f \in DOMAIN b
Field(f, v) == f :> v
Without(r, f) == [k \in DOMAIN r \ {f} |-> r[k]]
Set(r, f, v) == [k \in DOMAIN r \cup {f} |-> IF k = f THEN v ELSE r[k]]

\* A JS value used as a condition: undefined, false and "" are falsy.
TruthyFlag(b, f) == Has(b, f) /\ b[f] = TRUE
TruthyString(b, f) == Has(b, f) /\ b[f] # ""

IsSpace(c) == c = " "

RECURSIVE TrimStart(_)
TrimStart(s) ==
  IF s # <<>> /\ IsSpace(Head(s)) THEN TrimStart(Tail(s)) ELSE s

RECURSIVE TrimEnd(_)
TrimEnd(s) ==
  IF s # <<>> /\ IsSpace(s[Len(s)]) THEN TrimEnd(SubSeq(s, 1, Len(s) - 1)) ELSE s

\* validator's trim(): whitespace off both ends
Trim(s) == TrimEnd(TrimStart(s))

\* express-validator's toString of a field: undefined becomes ''
FieldString(b, f) == IF Has(b, f) THEN b[f] ELSE <<>>

Digits == [c \in {"0", "1", "2", "3", "4", "5", "6", "7", "8", "9"} |->
             CASE c = "0" -> 0 [] c = "1" -> 1 [] c = "2" -> 2 [] c = "3" -> 3
               [] c = "4" -> 4 [] c = "5" -> 5 [] c = "6" -> 6 [] c = "7" -> 7
               [] c = "8" -> 8 [] c = "9" -> 9]

RECURSIVE DigitPrefix(_, _)
DigitPrefix(s, acc) ==
  IF s # <<>> /\ Head(s) \in DOMAIN Digits
    THEN DigitPrefix(Tail(s), acc * 10 + Digits[Head(s)])
    ELSE acc

NaN == <<"NaN">>
Num(n) == <<"num", n>>

\* parseInt of a string: leading whitespace skipped, then the longest digit
\* prefix; NaN when there is none.
ParseInt(s) ==
  LET t == TrimStart(s) IN
    IF t # <<>> /\ Head(t) \in DOMAIN Digits THEN Num(DigitPrefix(t, 0)) ELSE NaN

---------------------------------------------------------------------------
(* The store *)

FindNote(id) == {n \in notes : n.id = id}
NoteOf(id) == CHOOSE n \in notes : n.id = id
FindVersion(id) == {v \in versions : v.id = id}
VersionsOfNote(vs, noteId) == {v \in vs : v.noteId = noteId}

\* bcrypt.compare(s, hash): throws unless both are strings; a stored string that
\* is no bcrypt hash never matches.
CompareThrows(stored) == stored = Null
Compare(p, stored) == stored = BcryptHash(p)

\* noteVersion.create({ data: { title, description, noteId } })
NewVersion(src, noteId) ==
  [id |-> nextVersionId, title |-> src.title, description |-> src.description,
   noteId |-> noteId, createdAt |-> now]

\* The foreign key note_versions.note_id -> notes.id: an insert whose parent row
\* is missing is refused.
ForeignKeyHolds(ns, noteId) == \E n \in ns : n.id = noteId

\* onDelete: Cascade
OnDeleteNoAction(vs, noteId) == vs
OnDeleteCascade(vs, noteId) == {v \in vs : v.noteId # noteId}

\* findMany({ where: { noteId }, orderBy: { createdAt: 'desc' } }): the lists the
\* store may return.  created_at is a TIMESTAMP of second precision, and the
\* order of rows that tie on the sort key is not defined.
OrderByCreatedAtDesc(vs) ==
  {s \in [1..Cardinality(vs) -> vs] :
     /\ \A i, j \in DOMAIN s : i # j => s[i] # s[j]
     /\ \A i, j \in DOMAIN s : i < j => s[i].createdAt >= s[j].createdAt}

---------------------------------------------------------------------------
(* Requests and responses *)

Idle == [pc |-> "idle"]
NoResp == [status |-> 0]
NoRevert == [noteId |-> 0]
AllIdle == \A p \in Procs : req[p] = Idle

Response(op, caller, id, body, status, out) ==
  [op |-> op, caller |-> caller, id |-> id, in |-> body, status |-> status, body |-> out]

Error(msg) == [error |-> msg]

\* A response of the middleware that runs before the body is read (authenticate,
\* checkNoteOwnership): `in' is empty.
Rejected(op, caller, id, status, out) == Response(op, caller, id, NoFields, status, out)

\* authenticate: no token, no entry
Unauthenticated(caller) == caller = Anonymous
NoToken == Error("Access denied. No token provided")

\* { ...note, password: undefined } as JSON: the key is dropped
WithoutPassword(note) == Without(note, "password")

\* noteValidation + handleValidationErrors: the messages, and the body with the
\* sanitised title and description.
TitleErrors(b) ==
  LET t == Trim(FieldString(b, "title")) IN
    (IF t = <<>> THEN {"Title is required"} ELSE {})
    \cup (IF Len(t) > MaxTitleLen THEN {"Title cannot exceed 255 characters"} ELSE {})

DescriptionErrors(b) ==
  IF Trim(FieldString(b, "description")) = <<>> THEN {"Description is required"} ELSE {}

\* body('password').optional().custom(...): skipped when the field is undefined
PasswordErrors(method, b) ==
  IF Has(b, "password") /\ method = "POST" /\ TruthyFlag(b, "isProtected")
       /\ ~TruthyString(b, "password")
    THEN {"Password is required for protected notes"}
    ELSE {}

ValidationErrors(method, b) ==
  TitleErrors(b) \cup DescriptionErrors(b) \cup PasswordErrors(method, b)

Sanitized(b) ==
  Set(Set(b, "title", Trim(FieldString(b, "title"))),
      "description", Trim(FieldString(b, "description")))

---------------------------------------------------------------------------
(* Single-step handlers: one store access between request and response *)

\* io.emit('notification', { action, noteId, userId, title, timestamp })
NoEvent == [action |-> "none"]
SocketError == [action |-> "socketError"]
Notification(action, note, userId) ==
  [action |-> action, noteId |-> note.id, userId |-> userId, title |-> note.title]

\* `try { io.emit(...) } catch (socketError) { console.error(...) }': the emit
\* sends the notification or throws; the handler goes on to its response.
EmitOutcomes == {"sent", "throws"}
Emit(outcome, n) == event' = IF outcome = "sent" THEN n ELSE SocketError
RethrowSocketError(outcome, r) ==
  IF outcome = "throws" THEN [r EXCEPT !.status = 500, !.body = Error("Server error")]
  ELSE r
CatchSocketError(outcome, r) == r

\* A response is sent once the client has taken the one before.
Reply(r) ==
  /\ resp = NoResp
  /\ resp' = r
  /\ UNCHANGED <<store, req, history, event>>

\* The client takes the response.
Receive ==
  /\ resp # NoResp
  /\ resp' = NoResp
  /\ event' = NoEvent
  /\ UNCHANGED <<store, req, history>>

\* POST /: `if (isProtected && password) password = await bcrypt.hash(...)'; a
\* password that is not hashed goes to the store as it came, undefined as NULL.
CreatePassword(b) ==
  IF TruthyFlag(b, "isProtected") /\ TruthyString(b, "password")
    THEN BcryptHash(b.password)
    ELSE IF Has(b, "password") THEN RawString(b.password) ELSE Null

\* note.create({ data: { title, description, isProtected: isProtected || false,
\*                       password, ownerId } })
NewNote(b, userId) ==
  [id |-> nextNoteId, title |-> b.title, description |-> b.description,
   isProtected |-> TruthyFlag(b, "isProtected"), password |-> CreatePassword(b),
   ownerId |-> userId]

\* A $transaction either commits all its writes or none.
TxOutcomes == {"commit", "abort"}

\* `Create initial version': the rows the transaction adds to note_versions
NoInitialVersion(note) == {}
InitialVersions(note) == {NewVersion(note, note.id)}

\* POST /  (authenticate, noteValidation, handleValidationErrors, handler)
CreateNote(caller, body) ==
  LET R(status, out) == Response("create", caller, 0, body, status, out) IN
  IF Unauthenticated(caller) THEN Reply(Rejected("create", caller, 0, 401, NoToken))
  ELSE IF ValidationErrors("POST", body) # {}
    THEN Reply(R(400, [errors |-> ValidationErrors("POST", body)]))
  ELSE \E tx \in TxOutcomes :
    IF tx = "abort" THEN Reply(R(500, Error("Server error")))
    ELSE LET note == NewNote(Sanitized(body), caller) IN
      /\ resp = NoResp
      /\ nextNoteId <= MaxNotes
      /\ nextVersionId <= MaxVersions
      /\ notes' = notes \cup {note}
      /\ versions' = versions \cup InitialVersions(note)
      /\ nextNoteId' = nextNoteId + 1
      /\ nextVersionId' = nextVersionId + 1
      /\ \E e \in EmitOutcomes :
           /\ Emit(e, Notification("create", note, caller))
           /\ resp' = CatchSocketError(e, R(201, note))
      /\ UNCHANGED <<now, req, history>>

\* GET /: findMany with a select of id, title, isProtected and the owner
ListNotes(caller) ==
  LET R(status, out) == Response("list", caller, 0, NoFields, status, out) IN
  IF Unauthenticated(caller) THEN Reply(Rejected("list", caller, 0, 401, NoToken))
  ELSE Reply(R(200, {[id |-> n.id, title |-> n.title, isProtected |-> n.isProtected,
                      ownerId |-> n.ownerId] : n \in notes}))

\* GET /:id
GetNote(caller, id) ==
  LET R(status, out) == Response("get", caller, id, NoFields, status, out) IN
  IF Unauthenticated(caller) THEN Reply(Rejected("get", caller, id, 401, NoToken))
  ELSE IF FindNote(id) = {} THEN Reply(R(404, Error("Note not found")))
  ELSE LET note == NoteOf(id) IN
    IF note.isProtected /\ note.ownerId # caller
      THEN Reply(R(200, Set(Set(WithoutPassword(note), "description", Null),
                            "needsPassword", TRUE)))
      ELSE Reply(R(200, WithoutPassword(note)))

\* POST /:id/unlock
UnlockNote(caller, id, body) ==
  LET R(status, out) == Response("unlock", caller, id, body, status, out) IN
  IF Unauthenticated(caller) THEN Reply(Rejected("unlock", caller, id, 401, NoToken))
  ELSE IF ~TruthyString(body, "password") THEN Reply(R(400, Error("Password is required")))
  ELSE IF FindNote(id) = {} THEN Reply(R(404, Error("Note not found")))
  ELSE LET note == NoteOf(id) IN
    IF ~note.isProtected THEN Reply(R(400, Error("This note is not protected")))
    ELSE IF CompareThrows(note.password) THEN Reply(R(500, Error("Server error")))
    ELSE IF ~Compare(body.password, note.password)
      THEN Reply(R(401, Error("Invalid password")))
      ELSE Reply(R(200, WithoutPassword(note)))

---------------------------------------------------------------------------
(* Handlers of several store accesses: a slot p of req holds the request.  *)

Finish(p, r) ==
  /\ resp = NoResp
  /\ req' = [req EXCEPT ![p] = Idle]
  /\ resp' = r

Continue(p, r) ==
  /\ resp = NoResp
  /\ req' = [req EXCEPT ![p] = r]
  /\ UNCHANGED <<store, history, resp, event>>

\* checkNoteOwnership: the error response, or Proceed
Proceed == [error |-> ""]
NotOwner == Error("Access denied. You are not the owner of this note")
\* (ExistenceCheck: the lookup alone, without the comparison of owners)
ExistenceCheck(caller, id) ==
  IF FindNote(id) = {} THEN [status |-> 404, body |-> Error("Note not found")]
  ELSE [status |-> 200, body |-> Proceed]
OwnershipCheck(caller, id) ==
  IF FindNote(id) = {} THEN [status |-> 404, body |-> Error("Note not found")]
  ELSE IF NoteOf(id).ownerId # caller THEN [status |-> 403, body |-> NotOwner]
  ELSE [status |-> 200, body |-> Proceed]

\* The snapshot a handler keeps of a row it read
Found(note) ==
  [found |-> TRUE, id |-> note.id, title |-> note.title,
   description |-> note.description, isProtected |-> note.isProtected]
NotFound == [found |-> FALSE]
Read(id) == IF FindNote(id) = {} THEN NotFound ELSE Found(NoteOf(id))

\* note.update({ where: { id }, data }): the fields of data replace the row's
ApplyData(row, data) == [k \in DOMAIN row |-> IF Has(data, k) THEN data[k] ELSE row[k]]

\* A write to a note ends the round trip a revert has opened on it.
Forget(id) == IF lastRevert.noteId = id THEN NoRevert ELSE lastRevert

---------------------------------------------------------------------------
(* PATCH /:id *)

\* authenticate, checkNoteOwnership, noteValidation, handleValidationErrors
UpdateStart(p, caller, id, body) ==
  LET R(status, out) == Response("update", caller, id, body, status, out)
      own == OwnershipCheck(caller, id)
  IN
  /\ req[p] = Idle
  /\ nextVersionId <= MaxVersions
  /\ IF Unauthenticated(caller) THEN Reply(Rejected("update", caller, id, 401, NoToken))
     ELSE IF own.status # 200 THEN Reply(Rejected("update", caller, id, own.status, own.body))
     ELSE IF ValidationErrors("PATCH", body) # {}
       THEN Reply(R(400, [errors |-> ValidationErrors("PATCH", body)]))
     ELSE Continue(p, [pc |-> "find", op |-> "update", caller |-> caller, id |-> id,
                       in |-> body, body |-> Sanitized(body)])

\* `if (isProtected && password) password = await bcrypt.hash(password, 12)'
UpdatePassword(b) ==
  IF TruthyFlag(b, "isProtected") THEN BcryptHash(b.password) ELSE RawString(b.password)

\* updateData: the fields the body carries, the password only when it is truthy
UpdateData(b) ==
  [k \in {f \in {"title", "description", "isProtected"} : Has(b, f)}
         \cup (IF TruthyString(b, "password") THEN {"password"} ELSE {})
     |-> IF k = "password" THEN UpdatePassword(b) ELSE b[k]]

\* `isProtected && !password && !currentNote.isProtected'
NeverMustSupplyPassword(b, cur) == FALSE
MustSupplyPassword(b, cur) ==
  TruthyFlag(b, "isProtected") /\ ~TruthyString(b, "password") /\ ~cur.isProtected

\* findUnique of the current note, the protection check, hashing, updateData
UpdateFind(p) ==
  LET r == req[p]
      R(status, out) == Response("update", r.caller, r.id, r.in, status, out)
      cur == Read(r.id)
  IN
  /\ r.pc = "find" /\ r.op = "update"
  /\ IF ~cur.found
       THEN Finish(p, R(404, Error("Note not found"))) /\ UNCHANGED <<store, history, event>>
     ELSE IF MustSupplyPassword(r.body, cur)
       THEN /\ Finish(p, R(400, Error("Password is required when protecting a note")))
            /\ UNCHANGED <<store, history, event>>
     ELSE Continue(p, [pc |-> "tx", op |-> "update", caller |-> r.caller, id |-> r.id,
                       in |-> r.in, cur |-> cur, data |-> UpdateData(r.body)])

\* The $transaction of update and of revert: a version holding the snapshot, then
\* the row's update; both or neither.  The insert needs the parent row and the
\* update needs the row.
CanCommit(cur) == cur.found /\ ForeignKeyHolds(notes, cur.id) /\ FindNote(cur.id) # {}

\* `Save current version first': the rows the transaction adds to note_versions
NoSnapshot(cur) == {}
Snapshot(cur) == {NewVersion(cur, cur.id)}

SnapshotAndWrite(cur, data) ==
  /\ nextVersionId <= MaxVersions
  /\ versions' = versions \cup Snapshot(cur)
  /\ notes' = (notes \ FindNote(cur.id)) \cup {ApplyData(NoteOf(cur.id), data)}
  /\ nextVersionId' = nextVersionId + 1
  /\ UNCHANGED <<nextNoteId, now>>

UpdateCommit(p) ==
  LET r == req[p]
      R(status, out) == Response("update", r.caller, r.id, r.in, status, out)
  IN
  /\ r.pc = "tx" /\ r.op = "update"
  /\ \E tx \in TxOutcomes :
       IF tx = "commit" /\ CanCommit(r.cur)
         THEN /\ SnapshotAndWrite(r.cur, r.data)
              /\ \E e \in EmitOutcomes :
                   /\ Emit(e, Notification("update", ApplyData(NoteOf(r.id), r.data),
                                           r.caller))
                   /\ Finish(p, CatchSocketError(e,
                          R(200, WithoutPassword(ApplyData(NoteOf(r.id), r.data)))))
              /\ nUpdates' = [nUpdates EXCEPT ![r.id] = @ + 1]
              /\ lastRevert' = Forget(r.id)
              /\ UNCHANGED nReverts
         ELSE /\ Finish(p, R(500, Error("Server error updating note")))
              /\ UNCHANGED <<store, history, event>>

---------------------------------------------------------------------------
(* DELETE /:id *)

\* authenticate, checkNoteOwnership
DeleteStart(p, caller, id) ==
  LET R(status, out) == Response("delete", caller, id, NoFields, status, out)
      own == OwnershipCheck(caller, id)
  IN
  /\ req[p] = Idle
  /\ IF Unauthenticated(caller) THEN Reply(Rejected("delete", caller, id, 401, NoToken))
     ELSE IF own.status # 200 THEN Reply(Rejected("delete", caller, id, own.status, own.body))
     ELSE Continue(p, [pc |-> "find", op |-> "delete", caller |-> caller, id |-> id])

\* findUnique noteExists
DeleteFind(p) ==
  LET r == req[p]
      R(status, out) == Response("delete", r.caller, r.id, NoFields, status, out)
  IN
  /\ r.pc = "find" /\ r.op = "delete"
  /\ IF FindNote(r.id) = {}
       THEN Finish(p, R(404, Error("Note not found"))) /\ UNCHANGED <<store, history, event>>
       ELSE Continue(p, [r EXCEPT !.pc = "delete"])

\* note.delete({ where: { id } }): throws when the row is gone; the versions go
\* with the row
DeleteCommit(p) ==
  LET r == req[p]
      R(status, out) == Response("delete", r.caller, r.id, NoFields, status, out)
  IN
  /\ r.pc = "delete" /\ r.op = "delete"
  /\ IF FindNote(r.id) = {}
       THEN /\ Finish(p, R(500, Error("Server error deleting note")))
            /\ UNCHANGED <<store, history, event>>
       ELSE /\ notes' = notes \ FindNote(r.id)
            /\ versions' = OnDeleteCascade(versions, r.id)
            /\ \E e \in EmitOutcomes :
                 /\ Emit(e, Notification("delete", NoteOf(r.id), r.caller))
                 /\ Finish(p, CatchSocketError(e,
                        R(200, [message |-> "Note deleted successfully"])))
            /\ lastRevert' = Forget(r.id)
            /\ UNCHANGED <<nextNoteId, nextVersionId, now, nUpdates, nReverts>>

---------------------------------------------------------------------------
(* GET /:id/versions *)

\* authenticate, findUnique of the note, the protection gate
VersionsStart(p, caller, id) ==
  LET R(status, out) == Response("versions", caller, id, NoFields, status, out) IN
  /\ req[p] = Idle
  /\ IF Unauthenticated(caller) THEN Reply(Rejected("versions", caller, id, 401, NoToken))
     ELSE IF FindNote(id) = {} THEN Reply(R(404, Error("Note not found")))
     ELSE IF NoteOf(id).isProtected /\ NoteOf(id).ownerId # caller
       THEN Reply(R(403, Error("Access denied - Unlock protected note first")))
     ELSE Continue(p, [pc |-> "list", op |-> "versions", caller |-> caller, id |-> id,
                       cur |-> Read(id)])

\* The synthetic entry built from the note itself
CurrentVersion(cur) ==
  [id |-> "current", title |-> cur.title, description |-> cur.description,
   noteId |-> cur.id, isCurrent |-> TRUE]

\* findMany of the versions; [currentVersion, ...versions]
VersionsList(p) ==
  LET r == req[p]
      R(status, out) == Response("versions", r.caller, r.id, NoFields, status, out)
  IN
  /\ r.pc = "list" /\ r.op = "versions"
  /\ \E list \in OrderByCreatedAtDesc(VersionsOfNote(versions, r.id)) :
       Finish(p, R(200, <<CurrentVersion(r.cur)>> \o list))
  /\ UNCHANGED <<store, history, event>>

---------------------------------------------------------------------------
(* POST /:id/revert *)

\* authenticate, checkNoteOwnership
RevertStart(p, caller, id, body) ==
  LET R(status, out) == Response("revert", caller, id, body, status, out)
      own == OwnershipCheck(caller, id)
  IN
  /\ req[p] = Idle
  /\ nextVersionId <= MaxVersions
  /\ IF Unauthenticated(caller) THEN Reply(Rejected("revert", caller, id, 401, NoToken))
     ELSE IF own.status # 200 THEN Reply(Rejected("revert", caller, id, own.status, own.body))
     ELSE Continue(p, [pc |-> "version", op |-> "revert", caller |-> caller, id |-> id,
                       in |-> body])

\* A JSON versionId: a number, or a string of characters
JsonNumber(n) == <<"number", n>>
JsonString(s) == <<"string", s>>

\* `isNaN(parseInt(versionId)) ? versionId : parseInt(versionId)': the integer,
\* or NaN standing for a value that is passed on as it came (a string, undefined)
ParsedVersionId(b) ==
  IF ~Has(b, "versionId") THEN NaN
  ELSE IF b.versionId[1] = "number" THEN Num(b.versionId[2])
  ELSE ParseInt(b.versionId[2])

\* findUnique({ where: { id: parsedVersionId } }): Prisma throws on an id that
\* is no Int
FindVersionThrows(parsed) == parsed = NaN

\* `!version || version.noteId !== noteId'
VersionMissing(parsed, noteId) ==
  \A v \in FindVersion(parsed[2]) : v.noteId # noteId

RevertFindVersion(p) ==
  LET r == req[p]
      R(status, out) == Response("revert", r.caller, r.id, r.in, status, out)
      parsed == ParsedVersionId(r.in)
  IN
  /\ r.pc = "version" /\ r.op = "revert"
  /\ IF FindVersionThrows(parsed)
       THEN Finish(p, R(500, Error("Server error"))) /\ UNCHANGED <<store, history, event>>
     ELSE IF VersionMissing(parsed, r.id)
       THEN Finish(p, R(404, Error("Version not found"))) /\ UNCHANGED <<store, history, event>>
     ELSE LET version == CHOOSE v \in FindVersion(parsed[2]) : TRUE IN
       Continue(p, [pc |-> "note", op |-> "revert", caller |-> r.caller, id |-> r.id,
                    in |-> r.in,
                    version |-> [id |-> version.id, title |-> version.title,
                                 description |-> version.description]])

\* findUnique of the current note (null when it is gone)
RevertFindNote(p) ==
  LET r == req[p] IN
  /\ r.pc = "note" /\ r.op = "revert"
  /\ Continue(p, [pc |-> "tx", op |-> "revert", caller |-> r.caller, id |-> r.id,
                  in |-> r.in, version |-> r.version, cur |-> Read(r.id)])

\* `Save current state as version first': what the new version holds
TargetState(cur, version) ==
  [cur EXCEPT !.title = version.title, !.description = version.description]
PreRevertState(cur, version) == cur

\* data: { title: version.title, description: version.description }
RevertData(version) == [title |-> version.title, description |-> version.description]

RevertCommit(p) ==
  LET r == req[p]
      R(status, out) == Response("revert", r.caller, r.id, r.in, status, out)
      before == NoteOf(r.id)
  IN
  /\ r.pc = "tx" /\ r.op = "revert"
  /\ \E tx \in TxOutcomes :
       IF tx = "commit" /\ CanCommit(r.cur)
         THEN /\ SnapshotAndWrite(PreRevertState(r.cur, r.version), RevertData(r.version))
              /\ \E e \in EmitOutcomes :
                   /\ Emit(e, Notification("revert", ApplyData(before, RevertData(r.version)),
                                           r.caller)
                                @@ [versionId |-> ParsedVersionId(r.in)])
                   /\ Finish(p, CatchSocketError(e,
                          R(200, WithoutPassword(ApplyData(before, RevertData(r.version))))))
              /\ nReverts' = [nReverts EXCEPT ![r.id] = @ + 1]
              /\ lastRevert' =
                   [noteId |-> r.id, created |-> nextVersionId,
                    before |-> [title |-> before.title, description |-> before.description],
                    closes |-> lastRevert.noteId = r.id /\ lastRevert.created = r.version.id,
                    origin |-> IF lastRevert.noteId = r.id /\ lastRevert.created = r.version.id
                                 THEN lastRevert.before
                                 ELSE [title |-> before.title,
                                       description |-> before.description]]
              /\ UNCHANGED nUpdates
         ELSE /\ Finish(p, R(500, Error("Server error")))
              /\ UNCHANGED <<store, history, event>>

---------------------------------------------------------------------------
(* The clock *)

\* A second passes.
Tick ==
  /\ now < MaxNow
  /\ now' = now + 1
  /\ UNCHANGED <<notes, versions, nextNoteId, nextVersionId, req, resp, event, history>>

---------------------------------------------------------------------------
(* Inputs *)

Opt(f, S) == {Field(f, v) : v \in S} \cup {NoFields}

LongTitle == [i \in 1..(MaxTitleLen + 1) |-> "a"]
TitleInputs == {<<"a">>, <<" ", "b">>, <<" ">>, LongTitle}
DescriptionInputs == {<<"x">>, <<"y", " ">>}
PasswordInputs == {"", "p", "q"}
VersionIdInputs ==
  {JsonNumber(n) : n \in 1..MaxVersions}
    \cup {JsonString(<<"1">>), JsonString(<<"c", "u", "r", "r", "e", "n", "t">>)}

\* Bodies that vary the content of a note and leave protection alone
ContentBodies ==
  {t @@ d : t \in Opt("title", TitleInputs), d \in Opt("description", DescriptionInputs)}

\* Bodies that vary the protection of a note and leave its content alone
ProtectionBodies ==
  {Field("title", <<"a">>) @@ Field("description", <<"x">>) @@ f @@ w :
     f \in Opt("isProtected", BOOLEAN), w \in Opt("password", PasswordInputs)}

\* Bodies of the requests that run side by side
ConcurrentBodies ==
  {Field("title", t) @@ Field("description", <<"x">>) : t \in {<<"a">>, <<"b">>}}
ConcurrentReverts == {Field("versionId", JsonNumber(n)) : n \in 1..MaxVersions}

UnlockBodies == Opt("password", PasswordInputs)
RevertBodies == Opt("versionId", VersionIdInputs)

---------------------------------------------------------------------------
(* Specifications *)

Init ==
  /\ notes = {}
  /\ versions = {}
  /\ nextNoteId = 1
  /\ nextVersionId = 1
  /\ now = 0
  /\ req = [p \in Procs |-> Idle]
  /\ resp = NoResp
  /\ event = NoEvent
  /\ nUpdates = [n \in NoteIds |-> 0]
  /\ nReverts = [n \in NoteIds |-> 0]
  /\ lastRevert = NoRevert

\* One client that waits for each response before it sends the next request;
\* the requests fall into one second of the store's clock (SpecClock lets it run).
Next ==
  \/ AllIdle /\ \E c \in Creators \cup {Anonymous}, b \in ContentBodies : CreateNote(c, b)
  \/ AllIdle /\ \E c \in Callers : ListNotes(c)
  \/ AllIdle /\ \E c \in Callers, id \in NoteIds : GetNote(c, id)
  \/ AllIdle /\ \E c \in Callers, id \in NoteIds, b \in UnlockBodies : UnlockNote(c, id, b)
  \/ AllIdle /\ \E c \in Callers, id \in NoteIds, b \in ContentBodies : UpdateStart(1, c, id, b)
  \/ UpdateFind(1)
  \/ UpdateCommit(1)
  \/ AllIdle /\ \E c \in Callers, id \in NoteIds : DeleteStart(1, c, id)
  \/ DeleteFind(1)
  \/ DeleteCommit(1)
  \/ AllIdle /\ \E c \in Callers, id \in NoteIds : VersionsStart(1, c, id)
  \/ VersionsList(1)
  \/ AllIdle /\ \E c \in Callers, id \in NoteIds, b \in RevertBodies : RevertStart(1, c, id, b)
  \/ RevertFindVersion(1)
  \/ RevertFindNote(1)
  \/ RevertCommit(1)
  \/ Receive

Spec == Init /\ [][Next]_vars

\* The same client, sending bodies that vary the protection
NextProt ==
  \/ AllIdle /\ \E c \in Creators \cup {Anonymous}, b \in ProtectionBodies : CreateNote(c, b)
  \/ AllIdle /\ \E c \in Callers : ListNotes(c)
  \/ AllIdle /\ \E c \in Callers, id \in NoteIds : GetNote(c, id)
  \/ AllIdle /\ \E c \in Callers, id \in NoteIds, b \in UnlockBodies : UnlockNote(c, id, b)
  \/ AllIdle /\ \E c \in Callers, id \in NoteIds, b \in ProtectionBodies : UpdateStart(1, c, id, b)
  \/ UpdateFind(1)
  \/ UpdateCommit(1)
  \/ AllIdle /\ \E c \in Callers, id \in NoteIds : DeleteStart(1, c, id)
  \/ DeleteFind(1)
  \/ DeleteCommit(1)
  \/ AllIdle /\ \E c \in Callers, id \in NoteIds : VersionsStart(1, c, id)
  \/ VersionsList(1)
  \/ AllIdle /\ \E c \in Callers, id \in NoteIds, b \in RevertBodies : RevertStart(1, c, id, b)
  \/ RevertFindVersion(1)
  \/ RevertFindNote(1)
  \/ RevertCommit(1)
  \/ Receive

SpecProt == Init /\ [][NextProt]_vars

\* Requests of the notes' owner handled side by side: the steps of two handlers
\* interleave at every store access.
NextConc ==
  \/ \E c \in Creators, b \in ConcurrentBodies : CreateNote(c, b)
  \/ \E p \in Procs, c \in Creators, id \in NoteIds, b \in ConcurrentBodies :
       UpdateStart(p, c, id, b)
  \/ \E p \in Procs : UpdateFind(p)
  \/ \E p \in Procs : UpdateCommit(p)
  \/ \E p \in Procs, c \in Creators, id \in NoteIds : DeleteStart(p, c, id)
  \/ \E p \in Procs : DeleteFind(p)
  \/ \E p \in Procs : DeleteCommit(p)
  \/ \E p \in Procs, c \in Creators, id \in NoteIds : VersionsStart(p, c, id)
  \/ \E p \in Procs : VersionsList(p)
  \/ \E p \in Procs, c \in Creators, id \in NoteIds, b \in ConcurrentReverts :
       RevertStart(p, c, id, b)
  \/ \E p \in Procs : RevertFindVersion(p)
  \/ \E p \in Procs : RevertFindNote(p)
  \/ \E p \in Procs : RevertCommit(p)
  \/ Receive

SpecConc == Init /\ [][NextConc]_vars

\* The owner's requests, one at a time, while the clock runs: two writes fall
\* into the same second or into different ones.
NextClock ==
  \/ AllIdle /\ \E c \in Creators, b \in ConcurrentBodies : CreateNote(c, b)
  \/ AllIdle /\ \E c \in Creators, id \in NoteIds, b \in ConcurrentBodies :
       UpdateStart(1, c, id, b)
  \/ UpdateFind(1)
  \/ UpdateCommit(1)
  \/ AllIdle /\ \E c \in Creators, id \in NoteIds : VersionsStart(1, c, id)
  \/ VersionsList(1)
  \/ AllIdle /\ \E c \in Creators, id \in NoteIds, b \in ConcurrentReverts :
       RevertStart(1, c, id, b)
  \/ RevertFindVersion(1)
  \/ RevertFindNote(1)
  \/ RevertCommit(1)
  \/ Tick
  \/ Receive

SpecClock == Init /\ [][NextClock]_vars

---------------------------------------------------------------------------
(* Claims on versioning, checked under Spec *)

Answered(op) == resp.status # 0 /\ resp.op = op
OwnerAsked == \E n \in FindNote(resp.id) : n.ownerId = resp.caller
AllFields == {"title", "description", "isProtected", "password"}

\* The values of a patch that the constraints on a note admit
AdmissiblePatch(b) ==
  /\ Has(b, "title") => Trim(b.title) # <<>> /\ Len(Trim(b.title)) <= MaxTitleLen
  /\ Has(b, "description") => Trim(b.description) # <<>>
  /\ TruthyFlag(b, "isProtected") => TruthyString(b, "password")

\* C5: an update by the owner whose patch carries only some of the fields, each
\* with an admissible value, is not refused (it ends 200 unless the store aborts
\* the transaction), and the note returned holds the patch's title and
\* description where the patch has them.
C5_PartialUpdateSucceeds ==
  (/\ Answered("update")
   /\ OwnerAsked
   /\ resp.in # NoFields
   /\ DOMAIN resp.in # AllFields
   /\ AdmissiblePatch(resp.in))
  => /\ resp.status \in {200, 500}
     /\ resp.status = 200 =>
          /\ Has(resp.in, "title") => resp.body.title = Trim(resp.in.title)
          /\ Has(resp.in, "description") => resp.body.description = Trim(resp.in.description)

\* The entries of a listVersions response after the synthetic one
Persisted(list) == SubSeq(list, 2, Len(list))
IsSynthetic(e) == Has(e, "isCurrent")
SyntheticMatchesNote(list, id) ==
  /\ Len(list) >= 1
  /\ IsSynthetic(list[1])
  /\ \A i \in 2..Len(list) : ~IsSynthetic(list[i]) /\ list[i] \in versions
  /\ \E n \in FindNote(id) :
       list[1].title = n.title /\ list[1].description = n.description

\* C6 (as the claim states it): after N successful updates of a note and no
\* revert, listVersions returns exactly N persisted versions plus the synthetic
\* entry, which holds the live note's title and description.
C6_NVersionsAfterNUpdates ==
  (Answered("versions") /\ resp.status = 200 /\ nReverts[resp.id] = 0
     /\ nUpdates[resp.id] >= 1)
  => /\ Len(Persisted(resp.body)) = nUpdates[resp.id]
     /\ SyntheticMatchesNote(resp.body, resp.id)

\* C6 (amended): after N successful updates of a note and no revert,
\* listVersions returns exactly N + 1 persisted versions (the one create wrote
\* and one per update) plus the synthetic entry, which holds the live note's
\* title and description.
C6_NPlusOneVersionsAfterNUpdates ==
  (Answered("versions") /\ resp.status = 200 /\ nReverts[resp.id] = 0)
  => /\ Len(Persisted(resp.body)) = nUpdates[resp.id] + 1
     /\ SyntheticMatchesNote(resp.body, resp.id)

C6_Witness ==
  /\ Answered("versions") /\ resp.status = 200
  /\ nReverts[resp.id] = 0 /\ nUpdates[resp.id] = 2
  /\ resp.body[1].title # resp.body[Len(resp.body)].title

\* C7, in a state: a create answered 201 has left the note and exactly one
\* version of it, holding the note's title and description; listVersions of a
\* note that was created and not written since returns the synthetic entry and
\* exactly that one version.
C7_CreatedWithOneVersion ==
  /\ (Answered("create") /\ resp.status = 201) =>
       /\ resp.body \in notes
       /\ \E v \in versions :
            /\ VersionsOfNote(versions, resp.body.id) = {v}
            /\ v.title = resp.body.title
            /\ v.description = resp.body.description
  /\ (Answered("versions") /\ resp.status = 200
        /\ nUpdates[resp.id] = 0 /\ nReverts[resp.id] = 0) =>
       /\ Len(resp.body) = 2
       /\ SyntheticMatchesNote(resp.body, resp.id)
       /\ resp.body[2].title = resp.body[1].title
       /\ resp.body[2].description = resp.body[1].description

\* C7, in a step: a create that is not answered 201 leaves both tables as
\* they were, and one that is adds one row to each.
C7_CreateStep ==
  (resp = NoResp /\ resp'.status # 0 /\ resp'.op = "create") =>
     IF resp'.status = 201
       THEN /\ Cardinality(notes') = Cardinality(notes) + 1
            /\ Cardinality(versions') = Cardinality(versions) + 1
            /\ notes \subseteq notes' /\ versions \subseteq versions'
       ELSE notes' = notes /\ versions' = versions

\* C7: a successful create inserts the note and exactly one version equal to it,
\* so listVersions right after create returns one persisted version plus the
\* synthetic entry; a create that fails leaves neither.
C7_CreateAtomic == [](C7_CreatedWithOneVersion) /\ [][C7_CreateStep]_vars

C7_Witness ==
  /\ Answered("versions") /\ resp.status = 200
  /\ nUpdates[resp.id] = 0 /\ nReverts[resp.id] = 0
  /\ resp.id = 2
  /\ resp.body[2].title = <<"b">>

\* C8: with no other request in between, a revert to v followed by a revert to
\* the version the first revert created leaves the note's title and description
\* as they were before the first revert.
C8_RevertRoundTrip ==
  (lastRevert.noteId # 0 /\ lastRevert.closes) =>
    \E n \in FindNote(lastRevert.noteId) :
      /\ n.title = lastRevert.origin.title
      /\ n.description = lastRevert.origin.description

C8_Witness ==
  /\ lastRevert.noteId # 0 /\ lastRevert.closes
  /\ lastRevert.before.title # lastRevert.origin.title
  /\ lastRevert.before.description # lastRevert.origin.description

\* A versionId that names a persisted version of the note
IdentifiesVersion(b, noteId) ==
  /\ ParsedVersionId(b) # NaN
  /\ \E v \in versions : v.id = ParsedVersionId(b)[2] /\ v.noteId = noteId

\* C9: a revert by the owner whose versionId names no persisted version of the
\* note (no such id, a version of another note, no id, an id that is no number)
\* is answered 404.
C9_BadVersionIdNotFound ==
  (Answered("revert") /\ OwnerAsked /\ ~IdentifiesVersion(resp.in, resp.id))
  => resp.status = 404

---------------------------------------------------------------------------
(* Claims on protection, checked under SpecProt *)

\* C1: every stored note has a password set exactly when it is protected.
C1_PasswordIffProtected ==
  \A n \in notes : (n.password # Null) <=> n.isProtected

\* The passwords a response body carries
PasswordsIn(r) ==
  IF r.status = 0 THEN {}
  ELSE IF r.op = "list" /\ r.status = 200
    THEN {e.password : e \in {x \in r.body : Has(x, "password")}}
  ELSE IF r.op = "versions" /\ r.status = 200
    THEN {r.body[i].password : i \in {j \in 1..Len(r.body) : Has(r.body[j], "password")}}
  ELSE IF Has(r.body, "password") THEN {r.body.password} ELSE {}

\* C2: no response body of a note operation carries a stored password.
C2_NoPasswordInResponse == PasswordsIn(resp) \subseteq {Null}

\* The note a response is about is protected, and the caller is another user
AskedByOther ==
  /\ resp.status # 0
  /\ resp.caller # Anonymous
  /\ \E n \in FindNote(resp.id) : n.isProtected /\ n.ownerId # resp.caller

SuppliedPassword == TruthyString(resp.in, "password")
CorrectPassword ==
  SuppliedPassword /\ \E n \in FindNote(resp.id) : Compare(resp.in.password, n.password)

\* The descriptions a response body carries
DescriptionsIn(r) ==
  IF r.status = 0 THEN {}
  ELSE IF r.op = "list" /\ r.status = 200
    THEN {e.description : e \in {x \in r.body : Has(x, "description")}}
  ELSE IF r.op = "versions" /\ r.status = 200
    THEN {r.body[i].description : i \in 1..Len(r.body)}
  ELSE IF Has(r.body, "description") THEN {r.body.description} ELSE {}

\* C3: what a user other than the owner receives about a protected note carries
\* no description, except the response to an unlock with the correct password;
\* an unlock with a wrong password is answered 401, without content.  (No
\* variable remembers an unlock: the gate of every read is the stored row.)
C3_ContentOnlyByUnlock ==
  /\ Answered("list") => DescriptionsIn(resp) \subseteq {Null}
  /\ AskedByOther =>
       /\ DescriptionsIn(resp) \subseteq {Null} \/ (resp.op = "unlock" /\ CorrectPassword)
       /\ (resp.op = "unlock" /\ SuppliedPassword /\ ~CorrectPassword) => resp.status = 401

\* C4: a create with isProtected true and no password, or an empty one, is
\* answered 400 and persists nothing; no note that create returns is protected
\* without a password hash.
C4_ProtectedCreateNeedsPassword ==
  /\ (Answered("create") /\ TruthyFlag(resp.in, "isProtected")
        /\ ~TruthyString(resp.in, "password")) => resp.status = 400
  /\ (Answered("create") /\ resp.status = 201 /\ resp.body.isProtected) =>
        \E w \in PasswordInputs : resp.body.password = BcryptHash(w)

---------------------------------------------------------------------------
(* Claims on concurrent requests, checked under SpecConc *)

\* C10: every persisted version references a note that exists; after a delete,
\* also one that a concurrent update or revert races, no version of the note
\* remains.
C10_NoOrphanVersions ==
  \A v \in versions : \E n \in notes : n.id = v.noteId

\* An update or revert that had read the note reaches its transaction after a
\* concurrent delete has removed the note.
C10_Witness ==
  /\ resp.status = 500 /\ resp.op \in {"update", "revert"}
  /\ FindNote(resp.id) = {}
  /\ resp.id < nextNoteId
  /\ versions # {}

---------------------------------------------------------------------------
(* Claims on ownership, checked under Spec *)

OwnerOps == {"update", "delete", "revert"}
Owns(caller, id) == \E n \in notes : n.id = id /\ n.ownerId = caller
StoreChanges == notes' # notes \/ versions' # versions

\* The answer that a request gets from the middleware: the client's requests are
\* sent while no handler is at work.
AnsweredAtOnce(ops) == AllIdle /\ resp = NoResp /\ resp' # NoResp /\ resp'.op \in ops /\ req' = req

\* C11: an update, delete or revert changes notes or versions only when the
\* authenticated caller is the owner of the note; on a note of somebody else it
\* is answered 403 and changes nothing, on a note that does not exist it is
\* answered 404 (not 403).
C11_OwnerOnlyStep ==
  /\ (StoreChanges /\ resp'.status # 0 /\ resp'.op \in OwnerOps)
       => Owns(resp'.caller, resp'.id)
  /\ (AnsweredAtOnce(OwnerOps) /\ ~Unauthenticated(resp'.caller))
       => /\ FindNote(resp'.id) = {} => resp'.status = 404
          /\ (FindNote(resp'.id) # {} /\ ~Owns(resp'.caller, resp'.id))
               => resp'.status = 403 /\ ~StoreChanges
C11_OwnerOnly == [][C11_OwnerOnlyStep]_vars

\* A request of user 2 on the note of user 1 was answered 403.
C11_Witness ==
  /\ resp.status = 403 /\ resp.op \in OwnerOps
  /\ FindNote(resp.id) # {} /\ ~Owns(resp.caller, resp.id)

---------------------------------------------------------------------------
(* Claims on the protection of a note under update, checked under SpecProt *)

UpdateAnswered == resp = NoResp /\ resp' # NoResp /\ resp'.op = "update"

\* C12: an update by the owner that sets isProtected = true on a note that is not
\* protected, without a non-empty password, is answered 400, creates no version
\* and changes no field of the note; an update of a protected note that carries no
\* new password leaves the stored password as it was.
C12_ProtectStep ==
  \A n \in notes :
    (UpdateAnswered /\ resp'.id = n.id /\ resp'.caller = n.ownerId) =>
      /\ (~n.isProtected /\ TruthyFlag(resp'.in, "isProtected")
            /\ ~TruthyString(resp'.in, "password"))
           => resp'.status = 400 /\ versions' = versions /\ notes' = notes
      /\ (n.isProtected /\ ~TruthyString(resp'.in, "password"))
           => \E m \in notes' : m.id = n.id /\ m.password = n.password
C12_ProtectNeedsPassword == [][C12_ProtectStep]_vars

\* The owner asked to protect an unprotected note without a password and was
\* refused by the handler.
C12_Witness ==
  /\ Answered("update") /\ OwnerAsked
  /\ resp.status = 400
  /\ resp.body = Error("Password is required when protecting a note")
  /\ \E n \in FindNote(resp.id) : ~n.isProtected

---------------------------------------------------------------------------
(* Claims on the order of the version list, checked under SpecClock *)

\* C13: listVersions returns the synthetic entry first and then all persisted
\* versions of the note, the one created by the later committed operation before
\* the one created by the earlier (ids are given in the order of the commits).
C13_LaterCreatedListedEarlier ==
  (Answered("versions") /\ resp.status = 200) =>
    LET list == resp.body IN
      /\ IsSynthetic(list[1])
      /\ {list[i] : i \in 2..Len(list)} = VersionsOfNote(versions, resp.id)
      /\ Len(list) = 1 + Cardinality(VersionsOfNote(versions, resp.id))
      /\ \A i, j \in 2..Len(list) : i < j => list[i].id > list[j].id

---------------------------------------------------------------------------
(* Claims on concurrent writes to one note, checked under SpecConc *)

\* C14: under every interleaving of updates and reverts of one note, the version
\* that an operation writes holds the title and description the note had just
\* before that operation's own write (so no state of the note is lost).
C14_SnapshotStep ==
  \A v \in versions' \ versions : \A n \in notes :
    n.id = v.noteId => v.title = n.title /\ v.description = n.description
C14_SnapshotIsPreWriteState == [][C14_SnapshotStep]_vars

DeleteAnswered == resp = NoResp /\ resp' # NoResp /\ resp'.op = "delete"

\* C15: a delete by the owner is answered 404 whenever the note does not exist at
\* the moment the delete is applied, also when a concurrent delete removed the
\* note after the ownership and existence checks of this request had passed.
C15_DeleteStep ==
  (DeleteAnswered /\ ~Unauthenticated(resp'.caller) /\ FindNote(resp'.id) = {})
    => resp'.status = 404
C15_DeleteOfMissingNoteNotFound == [][C15_DeleteStep]_vars

---------------------------------------------------------------------------
(* Claims on the change events, checked under Spec *)

WriteOps == {"create", "update", "delete", "revert"}

\* The store after the step holds what the response of the step reports.
CommittedAsAnswered ==
  CASE resp'.op = "create" ->
         /\ resp'.body \in notes' \ notes
         /\ \E v \in versions' \ versions : v.noteId = resp'.body.id
    [] resp'.op \in {"update", "revert"} ->
         /\ \E n \in notes' : WithoutPassword(n) = resp'.body
         /\ \E v \in versions' \ versions : v.noteId = resp'.id
    [] resp'.op = "delete" ->
         /\ \A n \in notes' : n.id # resp'.id
         /\ \E n \in notes : n.id = resp'.id
    [] OTHER -> FALSE

\* C16: for create, update, delete and revert the change event is emitted only
\* once the write of the operation is committed, and an exception raised by the
\* emit leaves the committed state as it is and the response a success.
C16_EmitStep ==
  (event' # event /\ event' # NoEvent) =>
    /\ resp'.op \in WriteOps
    /\ resp'.status = (IF resp'.op = "create" THEN 201 ELSE 200)
    /\ CommittedAsAnswered
    /\ event' # SocketError =>
         event'.action = resp'.op /\ event'.userId = resp'.caller
C16_EmitAfterCommit ==
  /\ [](event # NoEvent => resp.op \in WriteOps /\ resp.status \in {200, 201})
  /\ [][C16_EmitStep]_vars

\* The emit of a committed revert threw, and the revert was answered 200.
C16_Witness ==
  event = SocketError /\ resp.op = "revert" /\ resp.status = 200

---------------------------------------------------------------------------
(* Claims on the stored password, checked under SpecProt *)

IsHash(w) == \E raw \in PasswordInputs : w = BcryptHash(raw)

\* C17: in every reachable state a password stored on a note that is not NULL is
\* the hasher's output for a raw password of a create or update request; no raw
\* password is stored as it came, whatever isProtected the request carried.
C17_StoredPasswordIsHash ==
  \A n \in notes : n.password # Null => IsHash(n.password)

====
